---- MODULE Spec2Model ----
(***************************************************************************)
(* Model of the ADK memory-bank demo: the web interface ADKWebInterface   *)
(* (src/adk_web.py) and the CLI bot ADKMemoryBot (src/main.py), each      *)
(* talking to the remote session service, runner and memory bank.         *)
(*                                                                         *)
(* A coroutine runs without interruption up to its next await, so every   *)
(* action below is one such stretch: from the start of an operation to    *)
(* the remote call it awaits, or from the reply of a remote call to the   *)
(* next remote call (or the return).                                       *)
(***************************************************************************)
EXTENDS Integers, Sequences, FiniteSets, TLC

VARIABLES
    program,          \* which of the two programs runs: "web" or "cli"
    workers,          \* the coroutines that may be in an operation at once
    sessions,         \* ADKWebInterface.sessions: user_id -> session_id
    current_session,  \* ADKMemoryBot.current_session (a session object)
    remote,           \* sessions held by the remote session service
    memory,           \* sessions ingested by the remote memory bank
    tasks,            \* per coroutine: position, locals, calls made, result
    request           \* what do_POST / the chat loop last read, and how it parsed

vars ==
    <<program, workers, sessions, current_session, remote, memory, tasks,
      request>>

\* ---------------------------------------------------------------- bounds
MaxSessions == 3      \* sessions the remote service mints in one run
MaxEvents == 2        \* events one run_async stream yields at most

\* ------------------------------------------------------------- constants
\* The coroutines that call the interface: the request handler's, and a
\* second one for the case of two invocations sharing the interface.
Tasks == {1, 2}
Users == {"alice", "bob"}
Messages == {"hello"}
WebApp == "adk_web_bot"
CliApp == "adk_memory_bot"
CliUser == "user_123"
IdNames == <<"s1", "s2", "s3", "s4", "s5", "s6">>
DefaultResponse == "Agent did not produce a final response."
NoSessionError == "No active session found for user"
Absent == "<none>"

\* The events a runner can yield: a non-final one (with text, the case in
\* which ignoring it shows), and final ones whose content is None, has an
\* empty parts list, or has parts with text.
NoContent == [none |-> TRUE]
Events ==
    { [final |-> FALSE, content |-> [parts |-> <<"partial">>]],
      [final |-> TRUE, content |-> NoContent],
      [final |-> TRUE, content |-> [parts |-> <<>>]],
      [final |-> TRUE, content |-> [parts |-> <<"answer", "extra">>]] }

\* ------------------------------------------------------------- helpers
\* dict[k] = v
Put(d, k, v) == [x \in DOMAIN d \cup {k} |-> IF x = k THEN v ELSE d[x]]

\* dict.get(k, default)
Get(d, k, default) == IF k \in DOMAIN d THEN d[k] ELSE default

\* The remote session service mints an id no session has had before.
MintId == IdNames[Cardinality(remote) + 1]

CanMint == Cardinality(remote) < MaxSessions

\* session_service.create_session(app_name=..., user_id=...) on success
NewRemoteSession(app, u) == [id |-> MintId, app_name |-> app, user_id |-> u]

\* A remote call as the remote side sees it.
Call(rpc, args) == [rpc |-> rpc, args |-> args, status |-> "pending"]

\* The last call of a task gets its outcome.
Settle(calls, status) ==
    [calls EXCEPT ![Len(calls)] = [@ EXCEPT !.status = status]]

IdleTask ==
    [pc |-> "idle", op |-> "none", user_id |-> Absent, message |-> Absent,
     session_id |-> Absent, calls |-> <<>>, events |-> <<>>,
     final_response_text |-> Absent, completed_session |-> NoContent,
     result |-> [none |-> TRUE]]

Free(t) ==
    /\ t \in workers
    /\ tasks[t].pc \in {"idle", "done"}

\* A request is taken up only when the caller may run it: the HTTP server
\* is a plain TCPServer (one request at a time); coroutines sharing the
\* interface are started freely.
MayStart(t) ==
    /\ Free(t)
    /\ (Cardinality(workers) = 1 => \A o \in Tasks : tasks[o].pc \in {"idle", "done"})

Begin(t, op, u, m) ==
    [IdleTask EXCEPT !.op = op, !.user_id = u, !.message = m]

Done(task, res) == [task EXCEPT !.pc = "done", !.result = res]

\* ------------------------------------------------- ADKWebInterface.chat
\* get_or_create_session without the membership test
NeedsCreateAlways(u) == TRUE

\* get_or_create_session: the membership test
NeedsCreate(u) == u \notin DOMAIN sessions

\* self.sessions = {user_id: session.id}: the mapping is rebuilt
StoreSessionReplacingAll(u, session) == [x \in {u} |-> session.id]

\* self.sessions[user_id] = str(uuid.uuid4()): an id made locally
StoreSessionLocalId(u, session) == Put(sessions, u, "local-uuid")

\* get_or_create_session: self.sessions[user_id] = session.id
StoreSession(u, session) == Put(sessions, u, session.id)

\* chat: the runner.run_async(...) call
RunAsyncCall(app, u, sid, m) ==
    Call("run_async", [app_name |-> app, user_id |-> u, session_id |-> sid,
                       new_message |-> m])

CreateSessionCall(app, u) ==
    Call("create_session", [app_name |-> app, user_id |-> u])

\* chat: the dict returned after the loop
ChatSuccess(task) ==
    [success |-> TRUE, response |-> task.final_response_text,
     session_id |-> task.session_id, user_id |-> task.user_id]

\* The except branch reporting the local session_id instead of the cached one
ChatFailureLocalId(task, s, err) ==
    [success |-> FALSE, error |-> err,
     session_id |-> task.session_id, user_id |-> task.user_id]

\* chat: the except branch
ChatFailure(task, s, err) ==
    [success |-> FALSE, error |-> err,
     session_id |-> Get(s, task.user_id, "unknown"), user_id |-> task.user_id]

\* chat up to its first await: either create_session (no cached session) or
\* the first event of run_async on the cached session.
ChatStart(t, u, m) ==
    /\ program = "web"
    /\ MayStart(t)
    /\ IF NeedsCreate(u)
       THEN tasks' = [tasks EXCEPT ![t] =
                [Begin(t, "chat", u, m) EXCEPT
                    !.pc = "gocs_create",
                    !.calls = <<CreateSessionCall(WebApp, u)>>]]
       ELSE tasks' = [tasks EXCEPT ![t] =
                [Begin(t, "chat", u, m) EXCEPT
                    !.pc = "chat_stream",
                    !.session_id = sessions[u],
                    !.final_response_text = DefaultResponse,
                    !.calls = <<RunAsyncCall(WebApp, u, sessions[u], m)>>]]
    /\ UNCHANGED <<program, workers, sessions, current_session, remote, memory>>

\* get_or_create_session keeping the entry another coroutine stored while
\* this one awaited (self.sessions.setdefault(user_id, session.id))
GocsCreateReturnsSetDefault(t) ==
    /\ tasks[t].pc = "gocs_create"
    /\ CanMint
    /\ LET u == tasks[t].user_id
           session == NewRemoteSession(WebApp, u)
           stored == IF u \in DOMAIN sessions THEN sessions
                     ELSE Put(sessions, u, session.id)
           sid == stored[u]
       IN /\ remote' = remote \cup {session}
          /\ sessions' = stored
          /\ tasks' = [tasks EXCEPT ![t] =
                [@ EXCEPT
                    !.pc = "chat_stream",
                    !.session_id = sid,
                    !.final_response_text = DefaultResponse,
                    !.calls = Append(Settle(@, "returned"),
                        RunAsyncCall(WebApp, u, sid, tasks[t].message))]]
    /\ UNCHANGED <<request, program, workers, current_session, memory>>

\* create_session returned inside get_or_create_session: store the id,
\* return self.sessions[user_id], build the runner and start run_async.
GocsCreateReturns(t) ==
    /\ tasks[t].pc = "gocs_create"
    /\ CanMint
    /\ LET session == NewRemoteSession(WebApp, tasks[t].user_id)
           stored == StoreSession(tasks[t].user_id, session)
           sid == stored[tasks[t].user_id]
       IN /\ remote' = remote \cup {session}
          /\ sessions' = stored
          /\ tasks' = [tasks EXCEPT ![t] =
                [@ EXCEPT
                    !.pc = "chat_stream",
                    !.session_id = sid,
                    !.final_response_text = DefaultResponse,
                    !.calls = Append(Settle(@, "returned"),
                        RunAsyncCall(WebApp, tasks[t].user_id, sid,
                                     tasks[t].message))]]
    /\ UNCHANGED <<request, program, workers, current_session, memory>>

\* create_session raised inside get_or_create_session
GocsCreateRaises(t) ==
    /\ tasks[t].pc = "gocs_create"
    /\ tasks' = [tasks EXCEPT ![t] =
            Done([@ EXCEPT !.calls = Settle(@, "raised")],
                 ChatFailure(@, sessions, "create_session failed"))]
    /\ UNCHANGED <<request, program, workers, sessions, current_session, remote, memory>>

\* The loop body without its break
ChatOnEventNoBreak(text, event) ==
    IF event.final
    THEN [text |-> IF event.content # NoContent /\ event.content.parts # <<>>
                   THEN event.content.parts[1]
                   ELSE text,
          break |-> FALSE]
    ELSE [text |-> text, break |-> FALSE]

\* The body of chat's "async for": the new final_response_text and whether
\* the loop breaks.
ChatOnEvent(text, event) ==
    IF event.final
    THEN [text |-> IF event.content # NoContent /\ event.content.parts # <<>>
                   THEN event.content.parts[1]
                   ELSE text,
          break |-> TRUE]
    ELSE [text |-> text, break |-> FALSE]

\* run_async yields one more event to chat
ChatEvent(t, e) ==
    /\ tasks[t].pc = "chat_stream"
    /\ Len(tasks[t].events) < MaxEvents
    /\ LET r == ChatOnEvent(tasks[t].final_response_text, e)
           seen == [tasks[t] EXCEPT !.events = Append(@, e),
                                    !.final_response_text = r.text]
       IN tasks' = [tasks EXCEPT ![t] =
               IF r.break
               THEN Done([seen EXCEPT !.calls = Settle(@, "returned")],
                         ChatSuccess(seen))
               ELSE seen]
    /\ UNCHANGED <<request, program, workers, sessions, current_session, remote, memory>>

\* chat treating a run without a final response as a failure
ChatStreamEndsAsFailure(t) ==
    /\ tasks[t].pc = "chat_stream"
    /\ tasks' = [tasks EXCEPT ![t] =
            Done([@ EXCEPT !.calls = Settle(@, "returned")],
                 [success |-> FALSE, error |-> "no final response",
                  session_id |-> tasks[t].session_id,
                  user_id |-> tasks[t].user_id])]
    /\ UNCHANGED <<request, program, workers, sessions, current_session, remote, memory>>

\* run_async is exhausted without the loop having broken
ChatStreamEnds(t) ==
    /\ tasks[t].pc = "chat_stream"
    /\ tasks' = [tasks EXCEPT ![t] =
            Done([@ EXCEPT !.calls = Settle(@, "returned")], ChatSuccess(@))]
    /\ UNCHANGED <<request, program, workers, sessions, current_session, remote, memory>>

\* chat calling run_async again after it raised
ChatStreamRaisesRetry(t) ==
    /\ tasks[t].pc = "chat_stream"
    /\ tasks' = [tasks EXCEPT ![t] =
            IF Len(@.calls) < 3
            THEN [@ EXCEPT !.calls = Append(Settle(@, "raised"),
                      RunAsyncCall(WebApp, tasks[t].user_id,
                                   tasks[t].session_id, tasks[t].message))]
            ELSE Done([@ EXCEPT !.calls = Settle(@, "raised")],
                      [success |-> FALSE, error |-> "run_async failed",
                       session_id |-> tasks[t].session_id,
                       user_id |-> tasks[t].user_id])]
    /\ UNCHANGED <<request, program, workers, sessions, current_session, remote, memory>>

\* run_async raises (at its start or between two events)
ChatStreamRaises(t) ==
    /\ tasks[t].pc = "chat_stream"
    /\ tasks' = [tasks EXCEPT ![t] =
            Done([@ EXCEPT !.calls = Settle(@, "raised")],
                 ChatFailure(@, sessions, "run_async failed"))]
    /\ UNCHANGED <<request, program, workers, sessions, current_session, remote, memory>>

\* ------------------------------- ADKWebInterface.save_session_to_memory
\* get_session with the CLI's hard-coded user id
GetSessionCallFixedUser(app, u, sid) ==
    Call("get_session",
         [app_name |-> app, user_id |-> CliUser, session_id |-> sid])

GetSessionCall(app, u, sid) ==
    Call("get_session", [app_name |-> app, user_id |-> u, session_id |-> sid])

AddSessionToMemoryCall(session) ==
    Call("add_session_to_memory", [session |-> session])

\* What session_service.get_session hands back: the remote record under
\* the key (app_name, user_id, session_id).
Stored(app, u, sid) ==
    {s \in remote : s.app_name = app /\ s.user_id = u /\ s.id = sid}

\* save_session_to_memory: the dict returned when the user has no session
SaveNoSession == [success |-> FALSE, error |-> NoSessionError]

\* save_session_to_memory: the dict returned after both calls
SaveSuccess(task) ==
    [success |-> TRUE, message |-> "Session saved to memory bank",
     session_id |-> task.session_id, user_id |-> task.user_id]

\* save_session_to_memory: the except branch
SaveFailure(task, err) ==
    [success |-> FALSE, error |-> err, user_id |-> task.user_id]

\* save_session_to_memory without the test for an active session
SaveStartNoCheck(t, u) ==
    /\ program = "web"
    /\ MayStart(t)
    /\ tasks' = [tasks EXCEPT ![t] =
            [Begin(t, "save_session_to_memory", u, Absent) EXCEPT
                !.pc = "save_get",
                !.session_id = Get(sessions, u, "unknown"),
                !.calls = <<GetSessionCall(WebApp, u,
                                           Get(sessions, u, "unknown"))>>]]
    /\ UNCHANGED <<program, workers, sessions, current_session, remote, memory>>

\* save_session_to_memory up to its first await
SaveStart(t, u) ==
    /\ program = "web"
    /\ MayStart(t)
    /\ IF u \notin DOMAIN sessions
       THEN tasks' = [tasks EXCEPT ![t] =
                Done(Begin(t, "save_session_to_memory", u, Absent),
                     SaveNoSession)]
       ELSE tasks' = [tasks EXCEPT ![t] =
                [Begin(t, "save_session_to_memory", u, Absent) EXCEPT
                    !.pc = "save_get",
                    !.session_id = sessions[u],
                    !.calls = <<GetSessionCall(WebApp, u, sessions[u])>>]]
    /\ UNCHANGED <<program, workers, sessions, current_session, remote, memory>>

\* get_session returned: hand the session to the memory bank
SaveGetReturns(t) ==
    /\ tasks[t].pc = "save_get"
    /\ \E s \in Stored(WebApp, tasks[t].user_id, tasks[t].session_id) :
          tasks' = [tasks EXCEPT ![t] =
              [@ EXCEPT
                  !.pc = "save_add",
                  !.completed_session = s,
                  !.calls = Append(Settle(@, "returned"),
                                   AddSessionToMemoryCall(s))]]
    /\ UNCHANGED <<request, program, workers, sessions, current_session, remote, memory>>

\* save_session_to_memory calling get_session again after it raised
SaveGetRaisesRetry(t) ==
    /\ tasks[t].pc = "save_get"
    /\ tasks' = [tasks EXCEPT ![t] =
            IF Len(@.calls) < 2
            THEN [@ EXCEPT !.calls = Append(Settle(@, "raised"),
                      GetSessionCall(WebApp, tasks[t].user_id,
                                     tasks[t].session_id))]
            ELSE Done([@ EXCEPT !.calls = Settle(@, "raised")],
                      [success |-> FALSE, error |-> "get_session failed",
                       user_id |-> tasks[t].user_id])]
    /\ UNCHANGED <<request, program, workers, sessions, current_session, remote, memory>>

SaveGetRaises(t) ==
    /\ tasks[t].pc = "save_get"
    /\ tasks' = [tasks EXCEPT ![t] =
            Done([@ EXCEPT !.calls = Settle(@, "raised")],
                 SaveFailure(@, "get_session failed"))]
    /\ UNCHANGED <<request, program, workers, sessions, current_session, remote, memory>>

\* add_session_to_memory returned: the memory bank has ingested the session
SaveAddReturns(t) ==
    /\ tasks[t].pc = "save_add"
    /\ memory' = memory \cup {tasks[t].completed_session}
    /\ tasks' = [tasks EXCEPT ![t] =
            Done([@ EXCEPT !.calls = Settle(@, "returned")], SaveSuccess(@))]
    /\ UNCHANGED <<request, program, workers, sessions, current_session, remote>>

\* save_session_to_memory reporting success although the memory bank raised
SaveAddRaisesReportsSuccess(t) ==
    /\ tasks[t].pc = "save_add"
    /\ tasks' = [tasks EXCEPT ![t] =
            Done([@ EXCEPT !.calls = Settle(@, "raised")],
                 [success |-> TRUE, message |-> "Session saved to memory bank",
                  session_id |-> tasks[t].session_id,
                  user_id |-> tasks[t].user_id])]
    /\ UNCHANGED <<request, program, workers, sessions, current_session, remote, memory>>

SaveAddRaises(t) ==
    /\ tasks[t].pc = "save_add"
    /\ tasks' = [tasks EXCEPT ![t] =
            Done([@ EXCEPT !.calls = Settle(@, "raised")],
                 SaveFailure(@, "add_session_to_memory failed"))]
    /\ UNCHANGED <<request, program, workers, sessions, current_session, remote, memory>>

\* ------------------------------------------ ADKWebInterface.new_session
\* new_session: the dict returned after create_session
NewSessionSuccess(task, session) ==
    [success |-> TRUE, session_id |-> session.id, user_id |-> task.user_id,
     message |-> "New session created"]

\* new_session without its try/except: the exception reaches the caller
NewSessionFailureEscapes(task, err) == [raised |-> err]

\* new_session: the except branch
NewSessionFailure(task, err) ==
    [success |-> FALSE, error |-> err, user_id |-> task.user_id]

\* new_session handing back the cached session when the user has one
NewSessionStartReusing(t, u) ==
    /\ program = "web"
    /\ MayStart(t)
    /\ IF u \in DOMAIN sessions
       THEN tasks' = [tasks EXCEPT ![t] =
                Done(Begin(t, "new_session", u, Absent),
                     [success |-> TRUE, session_id |-> sessions[u],
                      user_id |-> u, message |-> "New session created"])]
       ELSE tasks' = [tasks EXCEPT ![t] =
                [Begin(t, "new_session", u, Absent) EXCEPT
                    !.pc = "new_create",
                    !.calls = <<CreateSessionCall(WebApp, u)>>]]
    /\ UNCHANGED <<program, workers, sessions, current_session, remote, memory>>

\* new_session up to its await: create_session, whatever the mapping holds
NewSessionStart(t, u) ==
    /\ program = "web"
    /\ MayStart(t)
    /\ tasks' = [tasks EXCEPT ![t] =
            [Begin(t, "new_session", u, Absent) EXCEPT
                !.pc = "new_create",
                !.calls = <<CreateSessionCall(WebApp, u)>>]]
    /\ UNCHANGED <<program, workers, sessions, current_session, remote, memory>>

\* new_session handing the session it replaces to the memory bank
NewCreateReturnsSavingOld(t) ==
    /\ tasks[t].pc = "new_create"
    /\ CanMint
    /\ LET u == tasks[t].user_id
           session == NewRemoteSession(WebApp, u)
           old == IF u \in DOMAIN sessions
                  THEN Stored(WebApp, u, sessions[u]) ELSE {}
       IN /\ remote' = remote \cup {session}
          /\ sessions' = Put(sessions, u, session.id)
          /\ memory' = memory \cup old
          /\ tasks' = [tasks EXCEPT ![t] =
                Done([@ EXCEPT !.calls =
                        IF old = {} THEN Settle(@, "returned")
                        ELSE Append(Settle(@, "returned"),
                                 [AddSessionToMemoryCall(CHOOSE o \in old : TRUE)
                                    EXCEPT !.status = "returned"])],
                     [success |-> TRUE, session_id |-> session.id,
                      user_id |-> u, message |-> "New session created"])]
    /\ UNCHANGED <<request, program, workers, current_session>>

NewCreateReturns(t) ==
    /\ tasks[t].pc = "new_create"
    /\ CanMint
    /\ LET session == NewRemoteSession(WebApp, tasks[t].user_id)
       IN /\ remote' = remote \cup {session}
          /\ sessions' = StoreSession(tasks[t].user_id, session)
          /\ tasks' = [tasks EXCEPT ![t] =
                Done([@ EXCEPT !.calls = Settle(@, "returned")],
                     NewSessionSuccess(@, session))]
    /\ UNCHANGED <<request, program, workers, current_session, memory>>

\* new_session forgetting the user's session when create_session raises
NewCreateRaisesDropsEntry(t) ==
    /\ tasks[t].pc = "new_create"
    /\ sessions' = [x \in DOMAIN sessions \ {tasks[t].user_id} |-> sessions[x]]
    /\ tasks' = [tasks EXCEPT ![t] =
            Done([@ EXCEPT !.calls = Settle(@, "raised")],
                 [success |-> FALSE, error |-> "create_session failed",
                  user_id |-> tasks[t].user_id])]
    /\ UNCHANGED <<request, program, workers, current_session, remote, memory>>

NewCreateRaises(t) ==
    /\ tasks[t].pc = "new_create"
    /\ tasks' = [tasks EXCEPT ![t] =
            Done([@ EXCEPT !.calls = Settle(@, "raised")],
                 NewSessionFailure(@, "create_session failed"))]
    /\ UNCHANGED <<request, program, workers, sessions, current_session, remote, memory>>

\* ------------------------------------- ADKWebInterface.get_session_info
SessionInfo(u) ==
    [user_id |-> u, session_id |-> Get(sessions, u, Absent),
     has_session |-> u \in DOMAIN sessions, app_name |-> WebApp]

\* get_session_info awaits nothing: it runs in one piece
GetSessionInfo(t, u) ==
    /\ program = "web"
    /\ MayStart(t)
    /\ tasks' = [tasks EXCEPT ![t] =
            Done(Begin(t, "get_session_info", u, Absent), SessionInfo(u))]
    /\ UNCHANGED <<program, workers, sessions, current_session, remote, memory>>

\* ------------------------------------------------ ADKWebHandler.do_POST
NoRequest == [none |-> TRUE]

\* The coroutine asyncio.run starts for the request being handled
HandlerTask == 1

KnownPaths == {"/chat", "/new_session", "/save_memory"}
Paths == KnownPaths \cup {"/sessions"}

\* Request bodies: text that is not JSON, JSON that is not an object, and
\* JSON objects with and without the fields user_id and message.
JsonObjects ==
    {<<>>}
    \cup {[user_id |-> u] : u \in Users}
    \cup {[message |-> m] : m \in Messages}
    \cup {[user_id |-> u, message |-> m] : u \in Users, m \in Messages}

Bodies ==
    {[json |-> "invalid"], [json |-> "array"]}
    \cup {[json |-> "object", data |-> d] : d \in JsonObjects}

\* The fields do_POST reads from data for a path, in the order it reads them
FieldsRead(path) ==
    IF path = "/chat" THEN <<"user_id", "message">>
    ELSE IF path \in KnownPaths THEN <<"user_id">>
    ELSE <<>>

\* The exception do_POST's try block raises before it calls an operation:
\* json.loads on the body, then data[...] for each field the path reads.
DoPostError(path, body) ==
    IF body.json = "invalid" THEN "JSONDecodeError"
    ELSE IF FieldsRead(path) = <<>> THEN Absent
    ELSE IF body.json # "object" THEN "TypeError"
    ELSE LET missing == {i \in 1..Len(FieldsRead(path)) :
                            FieldsRead(path)[i] \notin DOMAIN body.data}
         IN IF missing = {} THEN Absent ELSE "KeyError"

UnknownEndpoint == [success |-> FALSE, error |-> "Unknown endpoint"]

\* do_POST with the branches of /new_session and /save_memory swapped
DoPostSwappedRoutes(path, body) ==
    /\ program = "web"
    /\ MayStart(HandlerTask)
    /\ request' = [path |-> path, body |-> body,
                   raised |-> DoPostError(path, body)]
    /\ IF DoPostError(path, body) # Absent \/ path \notin KnownPaths
       THEN /\ tasks' = [tasks EXCEPT ![HandlerTask] = IdleTask]
            /\ UNCHANGED <<program, workers, sessions, current_session,
                           remote, memory>>
       ELSE IF path = "/chat"
       THEN ChatStart(HandlerTask, body.data.user_id, body.data.message)
       ELSE IF path = "/new_session"
       THEN SaveStart(HandlerTask, body.data.user_id)
       ELSE NewSessionStart(HandlerTask, body.data.user_id)

\* do_POST from reading the body to the first await of the operation it
\* dispatches to (or to its reply, when it calls none).
DoPost(path, body) ==
    /\ program = "web"
    /\ MayStart(HandlerTask)
    /\ request' = [path |-> path, body |-> body,
                   raised |-> DoPostError(path, body)]
    /\ IF DoPostError(path, body) # Absent \/ path \notin KnownPaths
       THEN /\ tasks' = [tasks EXCEPT ![HandlerTask] = IdleTask]
            /\ UNCHANGED <<program, workers, sessions, current_session,
                           remote, memory>>
       ELSE IF path = "/chat"
       THEN ChatStart(HandlerTask, body.data.user_id, body.data.message)
       ELSE IF path = "/new_session"
       THEN NewSessionStart(HandlerTask, body.data.user_id)
       ELSE SaveStart(HandlerTask, body.data.user_id)

\* self.send_response(status) and the JSON written after it
SendResponse(status, body) == [status |-> status, body |-> body]

\* do_POST choosing the status from the result's success flag
HttpReplyStatusBySuccess ==
    IF program # "web" \/ request = NoRequest THEN NoRequest
    ELSE IF request.raised # Absent
    THEN SendResponse(500, [success |-> FALSE, error |-> request.raised])
    ELSE IF request.path \notin KnownPaths
    THEN SendResponse(200, UnknownEndpoint)
    ELSE IF tasks[HandlerTask].pc # "done" THEN NoRequest
    ELSE IF tasks[HandlerTask].result.success
    THEN SendResponse(200, tasks[HandlerTask].result)
    ELSE SendResponse(500, tasks[HandlerTask].result)

\* What do_POST has written for the request: it replies in the same stretch
\* in which it fails to parse, finds no endpoint, or gets the operation's
\* result back from asyncio.run; an exception leaving the operation lands in
\* the same except branch as a parse error.
HttpReply ==
    IF program # "web" \/ request = NoRequest THEN NoRequest
    ELSE IF request.raised # Absent
    THEN SendResponse(500, [success |-> FALSE, error |-> request.raised])
    ELSE IF request.path \notin KnownPaths
    THEN SendResponse(200, UnknownEndpoint)
    ELSE IF tasks[HandlerTask].pc # "done" THEN NoRequest
    ELSE IF "raised" \in DOMAIN tasks[HandlerTask].result
    THEN SendResponse(500, [success |-> FALSE,
                            error |-> tasks[HandlerTask].result.raised])
    ELSE SendResponse(200, tasks[HandlerTask].result)

\* Coroutines that call the interface themselves, with no HTTP request
CallChat(t, u, m) == ChatStart(t, u, m) /\ request' = NoRequest

CallNewSession(t, u) == NewSessionStart(t, u) /\ request' = NoRequest

CallGetSessionInfo(t, u) == GetSessionInfo(t, u) /\ request' = NoRequest

\* ------------------------------------------------ ADKMemoryBot (CLI)
\* The chat loop is one coroutine: it awaits each operation before reading
\* the next input.
CliTask == 1

CliMayStart ==
    /\ program = "cli"
    /\ tasks[CliTask].pc \in {"idle", "done"}

\* call_agent: what it returns after the loop
CallAgentSuccess(task) == [returned |-> task.final_response_text]

\* call_agent: the except branch
CallAgentFailure(err) ==
    [returned |-> "Sorry, I encountered an error", error |-> err]

\* call_agent up to the first event of run_async
CallAgentStart(q) ==
    /\ CliMayStart
    /\ tasks' = [tasks EXCEPT ![CliTask] =
            [Begin(CliTask, "call_agent", CliUser, q) EXCEPT
                !.pc = "cli_stream",
                !.session_id = current_session.id,
                !.final_response_text = DefaultResponse,
                !.calls = <<RunAsyncCall(CliApp, CliUser,
                                         current_session.id, q)>>]]
    /\ UNCHANGED <<program, workers, sessions, current_session, remote, memory>>

\* The body of call_agent's "async for"
CallAgentOnEvent(text, event) ==
    IF event.final
    THEN [text |-> IF event.content # NoContent /\ event.content.parts # <<>>
                   THEN event.content.parts[1]
                   ELSE text,
          break |-> TRUE]
    ELSE [text |-> text, break |-> FALSE]

CallAgentEvent(e) ==
    /\ tasks[CliTask].pc = "cli_stream"
    /\ Len(tasks[CliTask].events) < MaxEvents
    /\ LET r == CallAgentOnEvent(tasks[CliTask].final_response_text, e)
           seen == [tasks[CliTask] EXCEPT !.events = Append(@, e),
                                          !.final_response_text = r.text]
       IN tasks' = [tasks EXCEPT ![CliTask] =
               IF r.break
               THEN Done([seen EXCEPT !.calls = Settle(@, "returned")],
                         CallAgentSuccess(seen))
               ELSE seen]
    /\ UNCHANGED <<request, program, workers, sessions, current_session, remote, memory>>

CallAgentStreamEnds ==
    /\ tasks[CliTask].pc = "cli_stream"
    /\ tasks' = [tasks EXCEPT ![CliTask] =
            Done([@ EXCEPT !.calls = Settle(@, "returned")],
                 CallAgentSuccess(@))]
    /\ UNCHANGED <<request, program, workers, sessions, current_session, remote, memory>>

CallAgentStreamRaises ==
    /\ tasks[CliTask].pc = "cli_stream"
    /\ tasks' = [tasks EXCEPT ![CliTask] =
            Done([@ EXCEPT !.calls = Settle(@, "raised")],
                 CallAgentFailure("run_async failed"))]
    /\ UNCHANGED <<request, program, workers, sessions, current_session, remote, memory>>

\* ADKMemoryBot.save_session_to_memory: it returns nothing and prints
CliSaved(session) == [printed |-> "saved to memory bank", session_id |-> session.id]

CliSaveFailure(err) == [printed |-> "Error saving session to memory", error |-> err]

CliSaveStart ==
    /\ CliMayStart
    /\ tasks' = [tasks EXCEPT ![CliTask] =
            [Begin(CliTask, "save_session_to_memory", CliUser, Absent) EXCEPT
                !.pc = "cli_save_get",
                !.session_id = current_session.id,
                !.calls = <<GetSessionCall(CliApp, CliUser,
                                           current_session.id)>>]]
    /\ UNCHANGED <<program, workers, sessions, current_session, remote, memory>>

CliSaveGetReturns ==
    /\ tasks[CliTask].pc = "cli_save_get"
    /\ \E s \in Stored(CliApp, CliUser, tasks[CliTask].session_id) :
          tasks' = [tasks EXCEPT ![CliTask] =
              [@ EXCEPT
                  !.pc = "cli_save_add",
                  !.completed_session = s,
                  !.calls = Append(Settle(@, "returned"),
                                   AddSessionToMemoryCall(s))]]
    /\ UNCHANGED <<request, program, workers, sessions, current_session, remote, memory>>

CliSaveGetRaises ==
    /\ tasks[CliTask].pc = "cli_save_get"
    /\ tasks' = [tasks EXCEPT ![CliTask] =
            Done([@ EXCEPT !.calls = Settle(@, "raised")],
                 CliSaveFailure("get_session failed"))]
    /\ UNCHANGED <<request, program, workers, sessions, current_session, remote, memory>>

CliSaveAddReturns ==
    /\ tasks[CliTask].pc = "cli_save_add"
    /\ memory' = memory \cup {tasks[CliTask].completed_session}
    /\ tasks' = [tasks EXCEPT ![CliTask] =
            Done([@ EXCEPT !.calls = Settle(@, "returned")],
                 CliSaved(current_session))]
    /\ UNCHANGED <<request, program, workers, sessions, current_session, remote>>

CliSaveAddRaises ==
    /\ tasks[CliTask].pc = "cli_save_add"
    /\ tasks' = [tasks EXCEPT ![CliTask] =
            Done([@ EXCEPT !.calls = Settle(@, "raised")],
                 CliSaveFailure("add_session_to_memory failed"))]
    /\ UNCHANGED <<request, program, workers, sessions, current_session, remote, memory>>

\* ADKMemoryBot.new_session: it returns nothing and prints
CliNewCreated(session) == [printed |-> "New session created", session_id |-> session.id]

CliNewFailure(err) == [printed |-> "Error creating new session", error |-> err]

CliNewStart ==
    /\ CliMayStart
    /\ tasks' = [tasks EXCEPT ![CliTask] =
            [Begin(CliTask, "new_session", CliUser, Absent) EXCEPT
                !.pc = "cli_new_create",
                !.calls = <<CreateSessionCall(CliApp, CliUser)>>]]
    /\ UNCHANGED <<program, workers, sessions, current_session, remote, memory>>

CliNewCreateReturns ==
    /\ tasks[CliTask].pc = "cli_new_create"
    /\ CanMint
    /\ LET session == NewRemoteSession(CliApp, CliUser)
       IN /\ remote' = remote \cup {session}
          /\ current_session' = session
          /\ tasks' = [tasks EXCEPT ![CliTask] =
                Done([@ EXCEPT !.calls = Settle(@, "returned")],
                     CliNewCreated(session))]
    /\ UNCHANGED <<request, program, workers, sessions, memory>>

CliNewCreateRaises ==
    /\ tasks[CliTask].pc = "cli_new_create"
    /\ tasks' = [tasks EXCEPT ![CliTask] =
            Done([@ EXCEPT !.calls = Settle(@, "raised")],
                 CliNewFailure("create_session failed"))]
    /\ UNCHANGED <<request, program, workers, sessions, current_session, remote, memory>>

\* ------------------------------------------- ADKMemoryBot.run_chat_loop
\* A line of input is a sequence of characters.
UpperToLower ==
    [A |-> "a", E |-> "e", H |-> "h", I |-> "i", L |-> "l", N |-> "n",
     P |-> "p", Q |-> "q", S |-> "s", T |-> "t", U |-> "u", V |-> "v",
     W |-> "w"]

\* The comparison made without lower()
LowerMissing(line) == line

\* str.lower()
Lower(line) ==
    [i \in 1..Len(line) |->
        IF line[i] \in DOMAIN UpperToLower THEN UpperToLower[line[i]]
        ELSE line[i]]

RECURSIVE LStrip(_)
LStrip(line) ==
    IF line # <<>> /\ Head(line) = " " THEN LStrip(Tail(line)) ELSE line

RECURSIVE RStrip(_)
RStrip(line) ==
    IF line # <<>> /\ line[Len(line)] = " "
    THEN RStrip(SubSeq(line, 1, Len(line) - 1))
    ELSE line

\* str.strip()
Strip(line) == RStrip(LStrip(line))

QuitCommand == <<"/", "q", "u", "i", "t">>
HelpCommand == <<"/", "h", "e", "l", "p">>
NewCommand == <<"/", "n", "e", "w">>
SaveCommand == <<"/", "s", "a", "v", "e">>

\* What the user may type
Inputs ==
    { <<>>, <<" ">>,
      QuitCommand, <<"/", "Q", "U", "I", "T">>,
      HelpCommand, <<"/", "H", "e", "l", "p">>,
      NewCommand, <<"/", "N", "E", "W">>, <<" ", "/", "n", "e", "w", " ">>,
      SaveCommand, <<"/", "S", "a", "v", "E">>,
      <<"/", "n", "e", "w", "s">>, <<"H", "i">>, <<" ", "h", "i">> }

\* One turn of the loop, from input() to the first await of the operation
\* the input selects (or back to the top of the loop, or out of it).
ReadInput(line) ==
    /\ CliMayStart
    /\ request' = [input |-> line]
    /\ LET user_input == Strip(line)
       IN IF user_input = <<>> \/ Lower(user_input) = HelpCommand
          THEN /\ tasks' = [tasks EXCEPT ![CliTask] = IdleTask]
               /\ UNCHANGED <<program, workers, sessions, current_session,
                              remote, memory>>
          ELSE IF Lower(user_input) = QuitCommand
          THEN /\ tasks' = [tasks EXCEPT ![CliTask] =
                        [IdleTask EXCEPT !.pc = "exited"]]
               /\ UNCHANGED <<program, workers, sessions, current_session,
                              remote, memory>>
          ELSE IF Lower(user_input) = NewCommand THEN CliNewStart
          ELSE IF Lower(user_input) = SaveCommand THEN CliSaveStart
          ELSE CallAgentStart(user_input)

\* ------------------------------------------------------- specifications
\* ADKMemoryBot.initialize has created the first session before the chat
\* loop starts (it re-raises when that fails, and the loop never runs).
CliFirstSession == [id |-> IdNames[1], app_name |-> CliApp, user_id |-> CliUser]

InitWeb ==
    /\ program = "web"
    /\ request = NoRequest
    /\ sessions = <<>>
    /\ current_session = NoContent
    /\ remote = {}
    /\ memory = {}
    /\ tasks = [t \in Tasks |-> IdleTask]

InitCli ==
    /\ program = "cli"
    /\ request = NoRequest
    /\ sessions = <<>>
    /\ current_session = CliFirstSession
    /\ remote = {CliFirstSession}
    /\ memory = {}
    /\ tasks = [t \in Tasks |-> IdleTask]

\* The programs as shipped: the HTTP server handles one request at a time,
\* the chat loop one input at a time.
Init ==
    /\ workers = {1}
    /\ (InitWeb \/ InitCli)

\* One ADKWebInterface shared by coroutines that interleave at their awaits.
InitConcurrent ==
    /\ workers = Tasks
    /\ InitWeb

Next ==
    \/ \E path \in Paths, body \in Bodies : DoPost(path, body)
    \/ \E t \in Tasks : GocsCreateReturns(t)
    \/ \E t \in Tasks : GocsCreateRaises(t)
    \/ \E t \in Tasks, e \in Events : ChatEvent(t, e)
    \/ \E t \in Tasks : ChatStreamEnds(t)
    \/ \E t \in Tasks : ChatStreamRaises(t)
    \/ \E t \in Tasks : SaveGetReturns(t)
    \/ \E t \in Tasks : SaveGetRaises(t)
    \/ \E t \in Tasks : SaveAddReturns(t)
    \/ \E t \in Tasks : SaveAddRaises(t)
    \/ \E t \in Tasks : NewCreateReturns(t)
    \/ \E t \in Tasks : NewCreateRaises(t)
    \/ \E t \in Tasks, u \in Users : CallGetSessionInfo(t, u)
    \/ \E line \in Inputs : ReadInput(line)
    \/ \E e \in Events : CallAgentEvent(e)
    \/ CallAgentStreamEnds
    \/ CallAgentStreamRaises
    \/ CliSaveGetReturns
    \/ CliSaveGetRaises
    \/ CliSaveAddReturns
    \/ CliSaveAddRaises
    \/ CliNewCreateReturns
    \/ CliNewCreateRaises

Spec == Init /\ [][Next]_vars

\* The operations that write the mapping, run by interleaving coroutines.
NextConcurrent ==
    \/ \E t \in Tasks, u \in Users, m \in Messages : CallChat(t, u, m)
    \/ \E t \in Tasks : GocsCreateReturns(t)
    \/ \E t \in Tasks : GocsCreateRaises(t)
    \/ \E t \in Tasks, e \in Events : ChatEvent(t, e)
    \/ \E t \in Tasks : ChatStreamEnds(t)
    \/ \E t \in Tasks : ChatStreamRaises(t)
    \/ \E t \in Tasks, u \in Users : CallNewSession(t, u)
    \/ \E t \in Tasks : NewCreateReturns(t)
    \/ \E t \in Tasks : NewCreateRaises(t)

ConcurrentSpec == InitConcurrent /\ [][NextConcurrent]_vars

\* ------------------------------------------------------------ properties
CallsOf(t) == {tasks[t].calls[i] : i \in 1..Len(tasks[t].calls)}

\* The names of the remote calls a task has made, in order
Rpcs(t) == [i \in 1..Len(tasks[t].calls) |-> tasks[t].calls[i].rpc]

WebOps == {"chat", "new_session", "save_session_to_memory"}

LastCallRaised(t) ==
    /\ tasks[t].calls # <<>>
    /\ tasks[t].calls[Len(tasks[t].calls)].status = "raised"

IsFailureDict(r) ==
    /\ "raised" \notin DOMAIN r
    /\ {"success", "error"} \subseteq DOMAIN r
    /\ r.success = FALSE
    /\ r.error \in {"create_session failed", "run_async failed",
                    "get_session failed", "add_session_to_memory failed"}

\* C1: in ADKWebInterface, when a remote call raises during chat,
\* new_session or save_session_to_memory, the operation has returned a
\* failure dict (success False, the error text) and the exception has not
\* reached the caller.
C1_RaisedCallGivesFailureDict ==
    program = "web" =>
        \A t \in Tasks :
            (tasks[t].op \in WebOps /\ LastCallRaised(t)) =>
                /\ tasks[t].pc = "done"
                /\ IsFailureDict(tasks[t].result)

\* C1 witness: a save whose second remote call raised, and a failure dict
C1_Witness ==
    \E t \in Tasks :
        /\ program = "web"
        /\ tasks[t].op = "save_session_to_memory"
        /\ Rpcs(t) = <<"get_session", "add_session_to_memory">>
        /\ LastCallRaised(t)
        /\ tasks[t].result.success = FALSE

\* C2: a user id that has an entry in sessions has one in every later
\* state: no step of any operation removes an entry.
C2_NoEviction == [][DOMAIN sessions \subseteq DOMAIN sessions']_vars

\* C2 witness: both users have entries, one of them overwritten, and the
\* last operation failed
C2_Witness ==
    /\ DOMAIN sessions = Users
    /\ Cardinality(remote) = 3
    /\ \E t \in Tasks : tasks[t].pc = "done" /\ LastCallRaised(t)

\* A chat for user u starts in this step on coroutine t
ChatBegins(t) ==
    /\ tasks[t].pc \in {"idle", "done"}
    /\ tasks'[t].pc \notin {"idle", "done"}
    /\ tasks'[t].op = "chat"

\* C3: with requests handled one after another, a chat for a user who has a
\* cached session runs on that cached id and calls no create_session; a
\* chat calls create_session only for a user with no entry; and a cached id
\* changes only by a new_session for that user.
C3_SessionCachedPerUser ==
    [][ /\ \A t \in Tasks :
            ChatBegins(t) =>
                LET u == tasks'[t].user_id
                IN IF u \in DOMAIN sessions
                   THEN /\ tasks'[t].session_id = sessions[u]
                        /\ Len(tasks'[t].calls) = 1
                        /\ tasks'[t].calls[1].rpc = "run_async"
                        /\ tasks'[t].calls[1].args.session_id = sessions[u]
                        /\ sessions' = sessions
                   ELSE /\ Len(tasks'[t].calls) = 1
                        /\ tasks'[t].calls[1].rpc = "create_session"
        /\ \A t \in Tasks :
            (tasks[t].op = "chat" /\ tasks[t].pc = "chat_stream") =>
                /\ tasks[t].user_id \in DOMAIN sessions
                /\ sessions' = sessions
                /\ tasks'[t].session_id = sessions[tasks[t].user_id]
                /\ \A i \in 1..Len(tasks'[t].calls) :
                      tasks'[t].calls[i].rpc = "create_session" => i = 1
        /\ \A u \in DOMAIN sessions :
            sessions'[u] # sessions[u] =>
                \E t \in Tasks : /\ tasks[t].op = "new_session"
                                 /\ tasks[t].user_id = u
                                 /\ tasks[t].pc = "new_create"
      ]_vars

\* C3 witness: a chat running on the session an earlier chat created, with
\* run_async as its only remote call
C3_Witness ==
    \E t \in Tasks :
        /\ program = "web"
        /\ tasks[t].op = "chat"
        /\ tasks[t].pc = "chat_stream"
        /\ Rpcs(t) = <<"run_async">>
        /\ tasks[t].session_id = sessions[tasks[t].user_id]
        /\ Cardinality(remote) = 1

\* C4: every value sessions[u] is the id of a session the remote service
\* created for this app_name and user u.
C4_CachedIdsAreRemoteSessionsOfUser ==
    \A u \in DOMAIN sessions :
        \E s \in remote :
            /\ s.id = sessions[u]
            /\ s.app_name = WebApp
            /\ s.user_id = u

\* C4 witness: both users hold a session, one of them a replacement
C4_Witness ==
    /\ DOMAIN sessions = Users
    /\ sessions["alice"] # sessions["bob"]
    /\ Cardinality(remote) = 3

\* C5: every run_async and get_session call of the web interface carries
\* the app_name, the requesting user's id and the session id cached for
\* that user, which is a session created for that user.
C5_CallsKeyedByRequestingUser ==
    program = "web" =>
        \A t \in Tasks :
            \A c \in CallsOf(t) :
                c.rpc \in {"run_async", "get_session"} =>
                    /\ c.args.app_name = WebApp
                    /\ c.args.user_id = tasks[t].user_id
                    /\ tasks[t].user_id \in DOMAIN sessions
                    /\ c.args.session_id = sessions[tasks[t].user_id]
                    /\ Stored(WebApp, tasks[t].user_id, c.args.session_id) # {}

\* C5 witness: a save for one user while the other user holds a session too
C5_Witness ==
    \E t \in Tasks :
        /\ program = "web"
        /\ DOMAIN sessions = Users
        /\ tasks[t].op = "save_session_to_memory"
        /\ tasks[t].pc = "save_add"
        /\ tasks[t].completed_session.user_id = tasks[t].user_id

HasText(e) == e.content # NoContent /\ e.content.parts # <<>>

\* C6: chat and call_agent consume the events in order and stop at the
\* first final one: a final event is only ever the last one consumed and
\* ends the operation; the response is the first part's text of that event
\* when it has content with parts, whatever the events before it were.
C6_StopsAtFirstFinalEvent ==
    \A t \in Tasks :
        tasks[t].op \in {"chat", "call_agent"} =>
            LET evs == tasks[t].events
                n == Len(evs)
            IN /\ \A i \in 1..n : evs[i].final => i = n
               /\ (n > 0 /\ evs[n].final) =>
                    /\ tasks[t].pc = "done"
                    /\ HasText(evs[n]) =>
                          tasks[t].final_response_text = evs[n].content.parts[1]
                    /\ ~HasText(evs[n]) =>
                          tasks[t].final_response_text = DefaultResponse
                    /\ tasks[t].op = "chat" =>
                          /\ tasks[t].result.success = TRUE
                          /\ tasks[t].result.response
                                = tasks[t].final_response_text
                    /\ tasks[t].op = "call_agent" =>
                          tasks[t].result.returned
                                = tasks[t].final_response_text
               /\ (n > 0 /\ ~evs[n].final) =>
                    tasks[t].final_response_text = DefaultResponse

\* C6 witness: a chat that saw a non-final event with text, then a final
\* one, and answered with the final one's first part
C6_Witness ==
    \E t \in Tasks :
        /\ tasks[t].op = "chat"
        /\ tasks[t].pc = "done"
        /\ Len(tasks[t].events) = 2
        /\ HasText(tasks[t].events[1])
        /\ tasks[t].events[2].final
        /\ tasks[t].result.response = "answer"

\* C7: add_session_to_memory is called only by save_session_to_memory, and
\* the memory bank takes in a session only in a step of that operation;
\* new_session does not save the session it replaces.
C7_OnlySaveAddsToMemory ==
    /\ [](\A t \in Tasks : \A c \in CallsOf(t) :
            c.rpc = "add_session_to_memory" =>
                tasks[t].op = "save_session_to_memory")
    /\ [][memory' # memory =>
            \E t \in Tasks :
                /\ tasks[t].op = "save_session_to_memory"
                /\ tasks[t].pc \in {"save_add", "cli_save_add"}
                /\ memory' = memory \cup {tasks[t].completed_session}]_vars

\* C7 witness: new_session has replaced a user's session and the memory
\* bank holds nothing
C7_Witness ==
    \E t \in Tasks, s \in remote :
        /\ program = "web"
        /\ tasks[t].op = "new_session"
        /\ tasks[t].pc = "done"
        /\ tasks[t].result.success = TRUE
        /\ s.user_id = tasks[t].user_id
        /\ s.id # sessions[tasks[t].user_id]
        /\ memory = {}

Finished(t) ==
    /\ tasks[t].pc = "done"
    /\ tasks[t].op \in WebOps \cup {"call_agent"}

\* C8 as stated: every finished chat/call_agent, new_session or
\* save_session_to_memory has issued exactly one remote call.
C8_ExactlyOneRemoteCall ==
    \A t \in Tasks : Finished(t) => Len(tasks[t].calls) = 1

\* C8 amended: an operation issues its remote calls one after another, each
\* after the one before returned, and at most two of them: new_session and
\* call_agent one (create_session, run_async); chat run_async alone when the
\* user has a cached session, else create_session and then, if that
\* returned, run_async; save_session_to_memory none when the user has no
\* session, else get_session and then, if that returned,
\* add_session_to_memory.
C8_AtMostTwoCallsInSequence ==
    \A t \in Tasks :
        /\ Len(tasks[t].calls) <= 2
        /\ \A i \in 1..Len(tasks[t].calls) :
              i < Len(tasks[t].calls) => tasks[t].calls[i].status = "returned"
        /\ Finished(t) =>
              /\ \A c \in CallsOf(t) : c.status # "pending"
              /\ tasks[t].op = "new_session" => Rpcs(t) = <<"create_session">>
              /\ tasks[t].op = "call_agent" => Rpcs(t) = <<"run_async">>
              /\ tasks[t].op = "chat" =>
                    \/ Rpcs(t) = <<"run_async">>
                    \/ Rpcs(t) = <<"create_session", "run_async">>
                    \/ Rpcs(t) = <<"create_session">> /\ LastCallRaised(t)
              /\ tasks[t].op = "save_session_to_memory" =>
                    \/ Rpcs(t) = <<>> /\ tasks[t].result = SaveNoSession
                    \/ Rpcs(t) = <<"get_session", "add_session_to_memory">>
                    \/ Rpcs(t) = <<"get_session">> /\ LastCallRaised(t)

\* C8 witness: a first chat for a user, finished after two remote calls
C8_Witness ==
    \E t \in Tasks :
        /\ tasks[t].op = "chat"
        /\ tasks[t].pc = "done"
        /\ tasks[t].result.success = TRUE
        /\ Rpcs(t) = <<"create_session", "run_async">>

\* Two coroutines a and b are both in a chat for the same user, and each
\* has had its own create_session return.
BothCreated(a, b) ==
    /\ a # b
    /\ tasks[a].op = "chat" /\ tasks[b].op = "chat"
    /\ tasks[a].user_id = tasks[b].user_id
    /\ Rpcs(a) = <<"create_session", "run_async">>
    /\ Rpcs(b) = <<"create_session", "run_async">>

\* C9: when two chats for one user with no cached session interleave at
\* the create_session await, each has passed the membership test and called
\* create_session; once both calls returned there are two remote sessions
\* for the user, each caller runs its message on its own one, and the
\* mapping holds at most one of the two, so one caller's session is not
\* referenced by the mapping; every return of create_session overwrites the
\* entry with the id just created.
C9_InterleavedChatsCreateTwoSessions ==
    /\ [](\A a \in Tasks, b \in Tasks :
            /\ (tasks[a].pc = "gocs_create") =>
                    /\ Rpcs(a) = <<"create_session">>
                    /\ tasks[a].calls[1].status = "pending"
            /\ BothCreated(a, b) =>
                    /\ tasks[a].session_id # tasks[b].session_id
                    /\ Stored(WebApp, tasks[a].user_id, tasks[a].session_id) # {}
                    /\ Stored(WebApp, tasks[b].user_id, tasks[b].session_id) # {}
                    /\ tasks[a].calls[2].args.session_id = tasks[a].session_id
                    /\ tasks[b].calls[2].args.session_id = tasks[b].session_id
                    /\ \/ sessions[tasks[a].user_id] # tasks[a].session_id
                       \/ sessions[tasks[a].user_id] # tasks[b].session_id)
    /\ [][\A t \in Tasks :
            (tasks[t].pc = "gocs_create" /\ tasks'[t].pc = "chat_stream") =>
                /\ tasks'[t].session_id \notin {s.id : s \in remote}
                /\ sessions'[tasks[t].user_id] = tasks'[t].session_id]_vars

\* C9 witness: both chats have finished; the mapping holds the second
\* caller's session and the first caller ran on the other one
C9_Witness ==
    \E a \in Tasks, b \in Tasks :
        /\ BothCreated(a, b)
        /\ tasks[a].pc = "done" /\ tasks[b].pc = "done"
        /\ tasks[a].result.success = TRUE
        /\ tasks[b].result.success = TRUE
        /\ sessions[tasks[a].user_id] = tasks[b].session_id
        /\ tasks[a].result.session_id # sessions[tasks[a].user_id]
        /\ Cardinality(Stored(WebApp, tasks[a].user_id, tasks[a].session_id)
             \cup Stored(WebApp, tasks[b].user_id, tasks[b].session_id)) = 2

\* C10: once a remote call has raised inside an operation, that operation
\* has made no further remote call: the raised call is its last one, and
\* the operation has returned.
C10_NoCallAfterRaise ==
    \A t \in Tasks :
        \A i \in 1..Len(tasks[t].calls) :
            tasks[t].calls[i].status = "raised" =>
                /\ i = Len(tasks[t].calls)
                /\ tasks[t].pc = "done"

\* C10 witness: a CLI save whose get_session raised, with nothing after it
C10_Witness ==
    /\ program = "cli"
    /\ tasks[CliTask].op = "save_session_to_memory"
    /\ tasks[CliTask].pc = "done"
    /\ Rpcs(CliTask) = <<"get_session">>
    /\ LastCallRaised(CliTask)

\* A POST is being handled, or has been answered
Posted == program = "web" /\ request # NoRequest

\* The operation each endpoint stands for
OpOfPath ==
    [p \in KnownPaths |->
        IF p = "/chat" THEN "chat"
        ELSE IF p = "/new_session" THEN "new_session"
        ELSE "save_session_to_memory"]

\* The body is a JSON object with every field the endpoint needs
HasFields(path, body) ==
    /\ body.json = "object"
    /\ "user_id" \in DOMAIN body.data
    /\ path = "/chat" => "message" \in DOMAIN body.data

\* do_POST takes up a request in this step
PostBegins ==
    /\ program = "web"
    /\ tasks[HandlerTask].pc \in {"idle", "done"}
    /\ request' # NoRequest

ExpectedTurn(line) ==
    CASE line \in {<<>>, <<" ">>} -> [op |-> "none", pc |-> "idle"]
      [] line \in {<<"/", "h", "e", "l", "p">>, <<"/", "H", "e", "l", "p">>}
            -> [op |-> "none", pc |-> "idle"]
      [] line \in {<<"/", "q", "u", "i", "t">>, <<"/", "Q", "U", "I", "T">>}
            -> [op |-> "none", pc |-> "exited"]
      [] line \in {<<"/", "n", "e", "w">>, <<"/", "N", "E", "W">>,
                   <<" ", "/", "n", "e", "w", " ">>}
            -> [op |-> "new_session"]
      [] line \in {<<"/", "s", "a", "v", "e">>, <<"/", "S", "a", "v", "E">>}
            -> [op |-> "save_session_to_memory"]
      [] line = <<"/", "n", "e", "w", "s">>
            -> [op |-> "call_agent", query |-> <<"/", "n", "e", "w", "s">>]
      [] line = <<"H", "i">>
            -> [op |-> "call_agent", query |-> <<"H", "i">>]
      [] line = <<" ", "h", "i">>
            -> [op |-> "call_agent", query |-> <<"h", "i">>]

\* C12: in run_chat_loop, /new, /save, /help and /quit in any letter case
\* and the empty line never send a message to the agent: /new calls only
\* create_session, /save only get_session and add_session_to_memory, /help,
\* /quit and the empty line make no remote call; every other line makes
\* exactly one run_async call with that line (stripped) on the current
\* session.
C12_CommandsNeverReachAgent ==
    (program = "cli" /\ request # NoRequest) =>
        LET turn == ExpectedTurn(request.input)
            task == tasks[CliTask]
        IN /\ task.op = turn.op
           /\ turn.op = "none" => task.pc = turn.pc /\ task.calls = <<>>
           /\ turn.op = "new_session" =>
                \A c \in CallsOf(CliTask) : c.rpc = "create_session"
           /\ turn.op = "save_session_to_memory" =>
                \A c \in CallsOf(CliTask) :
                    c.rpc \in {"get_session", "add_session_to_memory"}
           /\ turn.op = "call_agent" =>
                /\ Len(task.calls) = 1
                /\ task.calls[1].rpc = "run_async"
                /\ task.calls[1].args.new_message = turn.query
                /\ task.calls[1].args.session_id = current_session.id
                /\ task.calls[1].args.user_id = CliUser

\* C12 witness: /NEW in capitals has replaced the session, and no run_async
\* was called
C12_Witness ==
    /\ program = "cli"
    /\ request = [input |-> <<"/", "N", "E", "W">>]
    /\ tasks[CliTask].pc = "done"
    /\ Rpcs(CliTask) = <<"create_session">>
    /\ current_session # CliFirstSession

Begins(t, op) ==
    /\ tasks[t].pc \in {"idle", "done"}
    /\ tasks'[t].pc # "idle"
    /\ tasks'[t].op = op
    /\ tasks' # tasks

RemoteIds == {s.id : s \in remote}

\* C13: new_session(u) of the web interface calls create_session whether or
\* not u has a cached session; when the call returns, sessions[u] becomes
\* the id just created, the result's session_id is that id, and a chat for
\* u that starts afterwards runs on it and not on the id it replaced.
C13_NewSessionAlwaysCreates ==
    /\ [][\A t \in Tasks :
            /\ (program = "web" /\ Begins(t, "new_session")) =>
                  /\ tasks'[t].pc = "new_create"
                  /\ tasks'[t].calls =
                        <<[rpc |-> "create_session",
                           args |-> [app_name |-> WebApp,
                                     user_id |-> tasks'[t].user_id],
                           status |-> "pending"]>>
            /\ (tasks[t].pc = "new_create" /\ tasks'[t].pc = "done"
                    /\ ~LastCallRaised(t)' ) =>
                  LET u == tasks[t].user_id
                  IN /\ tasks'[t].result.success = TRUE
                     /\ sessions'[u] = tasks'[t].result.session_id
                     /\ sessions'[u] \notin RemoteIds
                     /\ sessions'[u] \in RemoteIds'
                     /\ u \in DOMAIN sessions => sessions'[u] # sessions[u]
            /\ (program = "web" /\ Begins(t, "chat")
                    /\ tasks'[t].user_id \in DOMAIN sessions) =>
                  tasks'[t].calls[1].args.session_id
                        = sessions[tasks'[t].user_id]]_vars
    /\ [](\A t \in Tasks :
            (program = "web" /\ tasks[t].op = "new_session"
                /\ tasks[t].pc = "done" /\ ~LastCallRaised(t)) =>
                    tasks[t].result.session_id = sessions[tasks[t].user_id])

\* C13 witness: a chat runs on the second session of its user, the one
\* new_session put in place of the first
C13_Witness ==
    \E t \in Tasks, old \in remote :
        /\ program = "web"
        /\ tasks[t].op = "chat"
        /\ tasks[t].pc = "chat_stream"
        /\ Rpcs(t) = <<"run_async">>
        /\ old.user_id = tasks[t].user_id
        /\ old.id # tasks[t].session_id
        /\ tasks[t].session_id = sessions[tasks[t].user_id]

CreatePositions == {"gocs_create", "new_create", "cli_new_create"}

\* C14: when create_session raises, the mapping is what it was before the
\* call (new_session keeps the previous id, chat adds no entry), and the CLI
\* bot's current_session is still the previous session.
C14_FailedCreateChangesNothing ==
    [][\A t \in Tasks :
        (tasks[t].pc \in CreatePositions /\ LastCallRaised(t)') =>
            /\ sessions' = sessions
            /\ current_session' = current_session
            /\ remote' = remote
            /\ tasks'[t].pc = "done"]_vars

\* C14 witness: new_session failed for a user who keeps the session they had
C14_Witness ==
    \E t \in Tasks :
        /\ program = "web"
        /\ tasks[t].op = "new_session"
        /\ LastCallRaised(t)
        /\ tasks[t].user_id \in DOMAIN sessions
        /\ Stored(WebApp, tasks[t].user_id, sessions[tasks[t].user_id]) # {}

\* C15: save_session_to_memory(u) of the web interface, when u has no
\* entry, returns {success: False, error: 'No active session found for
\* user'} without any remote call; and no step of the operation, whatever
\* its outcome, changes the mapping.
C15_SaveWithoutSession ==
    [][\A t \in Tasks :
        /\ (program = "web" /\ Begins(t, "save_session_to_memory")
                /\ tasks'[t].user_id \notin DOMAIN sessions) =>
              /\ tasks'[t].pc = "done"
              /\ tasks'[t].calls = <<>>
              /\ tasks'[t].result =
                    [success |-> FALSE,
                     error |-> "No active session found for user"]
        /\ (program = "web"
                /\ \/ Begins(t, "save_session_to_memory")
                   \/ tasks[t].pc \in {"save_get", "save_add"}) =>
              sessions' = sessions]_vars

\* C15 witness: a save for a user without a session, answered while another
\* user has one
C15_Witness ==
    \E t \in Tasks :
        /\ program = "web"
        /\ tasks[t].op = "save_session_to_memory"
        /\ tasks[t].pc = "done"
        /\ tasks[t].calls = <<>>
        /\ tasks[t].user_id \notin DOMAIN sessions
        /\ sessions # <<>>

SaveSucceeded(t) ==
    /\ tasks[t].op = "save_session_to_memory"
    /\ tasks[t].pc = "done"
    /\ IF program = "web" THEN tasks[t].result.success = TRUE
       ELSE tasks[t].result.printed = "saved to memory bank"

\* C16: in save_session_to_memory (web and CLI) add_session_to_memory is
\* called only after get_session returned, with the session get_session
\* returned for the requested key; success is reported only if both calls
\* returned.
C16_GetThenAdd ==
    \A t \in Tasks :
        tasks[t].op = "save_session_to_memory" =>
            /\ \A i \in 1..Len(tasks[t].calls) :
                  tasks[t].calls[i].rpc = "add_session_to_memory" =>
                      /\ i = 2
                      /\ tasks[t].calls[1].rpc = "get_session"
                      /\ tasks[t].calls[1].status = "returned"
                      /\ tasks[t].calls[2].args.session \in
                            Stored(tasks[t].calls[1].args.app_name,
                                   tasks[t].calls[1].args.user_id,
                                   tasks[t].calls[1].args.session_id)
                      /\ tasks[t].calls[2].args.session
                            = tasks[t].completed_session
            /\ SaveSucceeded(t) =>
                  /\ Rpcs(t) = <<"get_session", "add_session_to_memory">>
                  /\ tasks[t].calls[1].status = "returned"
                  /\ tasks[t].calls[2].status = "returned"
                  /\ tasks[t].completed_session \in memory

\* C16 witness: a save through the web interface that succeeded
C16_Witness ==
    \E t \in Tasks :
        /\ program = "web"
        /\ SaveSucceeded(t)
        /\ memory # {}

\* The run ended by itself or at a final event, without raising
RunReturned(t) ==
    /\ tasks[t].op \in {"chat", "call_agent"}
    /\ tasks[t].pc = "done"
    /\ tasks[t].calls[Len(tasks[t].calls)].rpc = "run_async"
    /\ tasks[t].calls[Len(tasks[t].calls)].status = "returned"

NoUsableFinal(evs) ==
    \/ \A i \in 1..Len(evs) : ~evs[i].final
    \/ \E i \in 1..Len(evs) :
          /\ evs[i].final
          /\ \A j \in 1..(i - 1) : ~evs[j].final
          /\ \/ evs[i].content = NoContent
             \/ evs[i].content.parts = <<>>

\* C17: when the stream ends with no final event, or its first final event
\* has no content or no parts, chat returns success True with the response
\* 'Agent did not produce a final response.' and call_agent returns that
\* same text.
C17_MissingFinalResponseIsSuccess ==
    \A t \in Tasks :
        (RunReturned(t) /\ NoUsableFinal(tasks[t].events)) =>
            IF tasks[t].op = "chat"
            THEN /\ tasks[t].result.success = TRUE
                 /\ tasks[t].result.response
                        = "Agent did not produce a final response."
            ELSE tasks[t].result
                    = [returned |-> "Agent did not produce a final response."]

\* C17 witness: a chat whose stream ended after one non-final event
C17_Witness ==
    \E t \in Tasks :
        /\ RunReturned(t)
        /\ tasks[t].op = "chat"
        /\ Len(tasks[t].events) = 1
        /\ ~tasks[t].events[1].final
        /\ tasks[t].result.success = TRUE

ChatFailed(t) ==
    /\ program = "web"
    /\ tasks[t].op = "chat"
    /\ tasks[t].pc = "done"
    /\ tasks[t].result.success = FALSE

\* C18: the session_id of a failed chat's dict is the id cached for the
\* user, or 'unknown' when the user has no entry; when create_session
\* returned and the run raised, the new session is cached, is the one
\* reported, and the next chat of the user runs on it without creating
\* another.
C18_FailureDictNamesCachedSession ==
    /\ [](\A t \in Tasks :
            ChatFailed(t) =>
                LET u == tasks[t].user_id
                IN /\ tasks[t].result.session_id =
                        IF u \in DOMAIN sessions THEN sessions[u]
                        ELSE "unknown"
                   /\ Rpcs(t) = <<"create_session", "run_async">> =>
                        /\ u \in DOMAIN sessions
                        /\ sessions[u] = tasks[t].calls[2].args.session_id
                        /\ Stored(WebApp, u, sessions[u]) # {}
                   /\ Rpcs(t) = <<"create_session">> =>
                        tasks[t].result.session_id = "unknown")
    /\ [][\A t \in Tasks :
            (ChatFailed(t) /\ Begins(t, "chat")
                /\ tasks'[t].user_id = tasks[t].user_id
                /\ tasks[t].user_id \in DOMAIN sessions) =>
                    /\ Rpcs(t)' = <<"run_async">>
                    /\ tasks'[t].calls[1].args.session_id
                          = tasks[t].result.session_id]_vars

\* C18 witness: the first chat of a user created a session and then failed
C18_Witness ==
    \E t \in Tasks :
        /\ ChatFailed(t)
        /\ Rpcs(t) = <<"create_session", "run_async">>
        /\ tasks[t].result.session_id = sessions[tasks[t].user_id]
====
